---- MODULE Spec2Model ----
(***************************************************************************)
(* rusty_curl: the request orchestration pipeline of main().               *)
(*                                                                         *)
(*   validate_cli(&cli).check_and_exit()?  ->  make_client()               *)
(*     ->  request_many(...).await  (one future per URL, join_all)         *)
(*     ->  build_writer(&cli.output)?  ->  write_results(...)?             *)
(*     ->  exit code                                                       *)
(*                                                                         *)
(* Strings the code inspects (URLs) are sequences of one-character         *)
(* strings, so that starts_with is computed, not assumed.                  *)
(***************************************************************************)
EXTENDS Integers, Sequences, FiniteSets, TLC

VARIABLES
    header_arg,   \* a -H argument handed to parse_key_val
    header_ret,   \* what parse_key_val returned for it
    cli,          \* the parsed Cli struct (immutable after Cli::parse)
    pc,           \* position of main()
    report,       \* the ValidationReport of validate_cli
    clients,      \* number of make_client() calls so far
    units,        \* the futures join_all holds, one per URL
    completion,   \* join_all: the ready futures, in the order they became ready
    overtaken,    \* some request reached its outcome before one submitted earlier did
    results,      \* the Vec returned by request_many
    writer,       \* the Box<dyn Write> of build_writer
    sink,         \* lines written to the primary sink, each tagged with its URL index
    stderr,       \* lines written to the diagnostic channel
    idx,          \* write_results: number of (url, res) pairs consumed by the loop
    had_failure,  \* write_results: the local had_failure
    wr_ret,       \* what write_results returned
    exit_code     \* the exit code of the process

vars == <<header_arg, header_ret, cli, pc, report, clients, units, completion, overtaken, results,
          writer, sink, stderr, idx, had_failure, wr_ret, exit_code>>

(***************************************************************************)
(* Bounds of the model.                                                    *)
(***************************************************************************)
MaxUrls == 2
MaxArgLen == 5

(***************************************************************************)
(* Program constants.                                                      *)
(***************************************************************************)
MAX_RETRIES == 3

None == "None"

(***************************************************************************)
(* Input strings.                                                          *)
(***************************************************************************)
HttpPrefix  == <<"h", "t", "t", "p", ":", "/", "/">>
HttpsPrefix == <<"h", "t", "t", "p", "s", ":", "/", "/">>

UrlHttp  == HttpPrefix \o <<"a">>
UrlHttps == HttpsPrefix \o <<"b">>
UrlFtp   == <<"f", "t", "p", ":", "/", "/", "c">>
UrlUpper == <<"H", "T", "T", "P", ":", "/", "/", "d">>
UrlShort == <<"h", "t", "t", "p">>


\* A URL with the http:// prefix and a host that is a space: it is not a URL.
UrlBadHost == HttpPrefix \o <<" ">>

UrlPool == {UrlHttp, UrlHttps, UrlFtp}

\* The URLs the pipeline is run with: one that validates, one that does not.
PipelineUrls == {UrlHttp, UrlFtp}

\* The URLs the functions are applied to on their own.
FnUrls == UrlPool \cup {UrlUpper, UrlShort}

CliMethod == {"Get", "Post", "Put", "Delete"}

\* The json values of the model: one that parses and one that does not.
JsonGood == "{\"k\":1}"
JsonBad  == "{\"k\":"

\* A json option that is present and empty: not a JSON text.
JsonEmpty == ""

\* The (body, json, form) options the pipeline is run with.
BodyOptions ==
    { <<None, None, None>>,
      <<"raw", None, None>>,
      <<None, JsonGood, None>>,
      <<None, JsonBad, None>>,
      <<"raw", None, "f=1">> }

SeqsUpTo(S, n) == UNION { [1..k -> S] : k \in 1..n }

(***************************************************************************)
(* cli.rs: the validator.                                                  *)
(***************************************************************************)
starts_with(s, p) == Len(s) >= Len(p) /\ SubSeq(s, 1, Len(p)) = p

\* Url::parse on the URLs of the model: a scheme, "://" and a host that is
\* not empty and holds no space.
url_parses(url) ==
    \E k \in 1..(Len(url) - 3) :
        /\ k > 1
        /\ SubSeq(url, k, k + 2) = <<":", "/", "/">>
        /\ \A j \in 1..(k - 1) : url[j] \notin {":", "/", " "}
        /\ \A j \in (k + 3)..Len(url) : url[j] # " "

\* Mutant: a validator that also parses the URL.
valid_url_parsed(url) ==
    (starts_with(url, HttpPrefix) \/ starts_with(url, HttpsPrefix))
    /\ url_parses(url)

\* Mutant: a validator that knows the http:// prefix only.
valid_url_http_only(url) == starts_with(url, HttpPrefix)

valid_url(url) == starts_with(url, HttpPrefix) \/ starts_with(url, HttpsPrefix)

\* The characters of a -H argument: a letter, the colon and the space.
Chars == {"a", ":", " "}

\* Mutant: the position of the last colon.
rfind_colon(s) ==
    IF \E k \in 1..Len(s) : s[k] = ":"
    THEN CHOOSE k \in 1..Len(s) :
            s[k] = ":" /\ \A j \in (k + 1)..Len(s) : s[j] # ":"
    ELSE 0

\* s.find(':'): the position of the first colon, 0 for None.
find_colon(s) ==
    IF \E k \in 1..Len(s) : s[k] = ":"
    THEN CHOOSE k \in 1..Len(s) : s[k] = ":" /\ \A j \in 1..(k - 1) : s[j] # ":"
    ELSE 0

\* str::trim: without leading and trailing whitespace.
RECURSIVE trim_start(_)
trim_start(s) ==
    IF s # <<>> /\ Head(s) = " " THEN trim_start(Tail(s)) ELSE s
RECURSIVE trim_end(_)
trim_end(s) ==
    IF s # <<>> /\ s[Len(s)] = " " THEN trim_end(SubSeq(s, 1, Len(s) - 1)) ELSE s
trim(s) == trim_end(trim_start(s))

parse_key_val(s) ==
    LET pos == find_colon(s)
    IN  IF pos = 0
        THEN [kind |-> "err", key |-> <<>>, value |-> <<>>]
        ELSE [kind  |-> "ok",
              key   |-> trim(SubSeq(s, 1, pos - 1)),
              value |-> trim(SubSeq(s, pos + 1, Len(s)))]

\* Mutant: a parser that takes the empty string for a JSON text.
json_parses_empty_ok(json) == json \in {JsonGood, JsonEmpty}

\* serde_json::from_str::<Value>(json).is_ok(), on the json values of the model.
json_parses(json) == json = JsonGood

is_some(opt) == opt # None

RECURSIVE UrlErrors(_)
UrlErrors(urls) ==
    IF urls = <<>> THEN <<>>
    ELSE (IF valid_url(Head(urls)) THEN <<>>
          ELSE << <<"Invalid URL", Head(urls)>> >>) \o UrlErrors(Tail(urls))

\* Mutant: the warning for GET only.
BodyWarningGetOnly(c) ==
    IF c.method = "Get"
       /\ (is_some(c.body) \/ is_some(c.json) \/ is_some(c.form))
    THEN << <<"Body not allowed for GET or DELETE">> >>
    ELSE <<>>

BodyWarning(c) ==
    IF c.method \in {"Get", "Delete"}
       /\ (is_some(c.body) \/ is_some(c.json) \/ is_some(c.form))
    THEN << <<"Body not allowed for GET or DELETE">> >>
    ELSE <<>>

CountSome(c) == Cardinality({f \in {"body", "json", "form"} : is_some(c[f])})

\* Mutant: the error only when body, json and form are all three present.
ExclusiveErrorAllThree(c) ==
    IF CountSome(c) > 2
    THEN << <<"Can't have more than one of body, json, and form">> >>
    ELSE <<>>

ExclusiveError(c) ==
    IF CountSome(c) > 1
    THEN << <<"Can't have more than one of body, json, and form">> >>
    ELSE <<>>

\* Mutant: the JSON rule only for the methods that send a body.
JsonErrorBodyMethodsOnly(c) ==
    IF c.method \in {"Post", "Put"} /\ is_some(c.json) /\ ~json_parses(c.json)
    THEN << <<"JSON is not valid: ", c.json>> >>
    ELSE <<>>

JsonError(c) ==
    IF is_some(c.json) /\ ~json_parses(c.json)
    THEN << <<"JSON is not valid: ", c.json>> >>
    ELSE <<>>

\* Mutant: a validator that returns at the first rule that finds an error.
validate_cli_short_circuit(c) ==
    [ errors   |-> IF UrlErrors(c.urls) # <<>> THEN UrlErrors(c.urls)
                   ELSE IF ExclusiveError(c) # <<>> THEN ExclusiveError(c)
                   ELSE JsonError(c),
      warnings |-> IF UrlErrors(c.urls) # <<>> THEN <<>> ELSE BodyWarning(c) ]

validate_cli(c) ==
    [ errors   |-> UrlErrors(c.urls) \o ExclusiveError(c) \o JsonError(c),
      warnings |-> BodyWarning(c) ]

has_errors(r)   == r.errors # <<>>
has_warnings(r) == r.warnings # <<>>

\* A line of the diagnostic channel: a log line of check_and_exit, or the
\* eprintln! of write_results for one URL.
LogLine(m) ==
    [kind |-> "log", msg |-> m, url |-> <<>>, status |-> 0, err |-> ""]
ReturnedLine(url, status) ==
    [kind |-> "returned", msg |-> <<>>, url |-> url, status |-> status, err |-> ""]
FailedLine(url, e) ==
    [kind |-> "failed", msg |-> <<>>, url |-> url, status |-> 0, err |-> e]

LogLines(ms) == [k \in 1..Len(ms) |-> LogLine(ms[k])]

\* What check_and_exit logs: the warnings, then the errors.
CheckLog(r) ==
    (IF has_warnings(r) THEN LogLines(<< <<"Warnings:">> >> \o r.warnings) ELSE <<>>)
    \o (IF has_errors(r) THEN LogLines(<< <<"Errors:">> >> \o r.errors) ELSE <<>>)

\* Mutant: check_and_exit that also bails on warnings.
check_and_exit_strict(r) == ~has_errors(r) /\ ~has_warnings(r)

\* Mutant: check_and_exit that logs the errors but returns Ok(()).
check_and_exit_logs_only(r) == TRUE

\* check_and_exit(): TRUE for Ok(()), FALSE for the bail!.
check_and_exit(r) == ~has_errors(r)

(***************************************************************************)
(* http.rs: the client, the executor and the dispatcher.                   *)
(***************************************************************************)
\* main.rs 116-118: json, else body, else form.
or(a, b) == IF is_some(a) THEN a ELSE b

\* Mutant: the raw body taken before json.
BodyArgBodyFirst(c) == or(c.body, or(c.json, c.form))

\* main: cli.json.or(cli.body).or(cli.form).
BodyArg(c) == or(c.json, or(c.body, c.form))

\* Mutant: the body handed to request() whatever the method.
RequestBodyAnyMethod(method, body) == body

\* request_many's match on the method: the body handed to request().
RequestBody(method, body) ==
    CASE method = "Get"    -> None
      [] method = "Post"   -> body
      [] method = "Put"    -> body
      [] method = "Delete" -> None

\* Mutant: a header call that replaces the values the key already has.
header_insert(sent, key, value) ==
    SelectSeq(sent, LAMBDA h : h[1] # key) \o << <<key, value>> >>

\* builder.header(key, value): one more header on the request.
header(sent, key, value) == Append(sent, <<key, value>>)

\* request(): for (key, value) in headers { builder = builder.header(key, value) }
RECURSIVE AttachHeaders(_, _)
AttachHeaders(sent, headers) ==
    IF headers = <<>> THEN sent
    ELSE AttachHeaders(header(sent, Head(headers)[1], Head(headers)[2]),
                       Tail(headers))

\* Mutant: a request() that leaves the body out for GET and DELETE.
BuildRequestBodyByMethod(url, method, body, headers) ==
    [ method |-> method, url |-> url,
      headers |-> AttachHeaders(<<>>, headers),
      body |-> IF method \in {"Get", "Delete"} THEN None ELSE body ]

\* request(): the request the builder holds when send() is called; the body
\* is attached when one is passed (if let Some(b) = body).
\* request(): the builder just before send().
BuildRequest(url, method, body, headers) ==
    [ method |-> method, url |-> url,
      headers |-> AttachHeaders(<<>>, headers), body |-> body ]

\* What one physical attempt can end in.
AttemptResults == {"2xx", "4xx", "5xx", "connect", "fatal"}
StatusOf(a) == CASE a = "2xx" -> 200 [] a = "4xx" -> 404 [] a = "5xx" -> 500

\* Mutant: a middleware that retries after every attempt that is not a 2xx.
TransientAnyFailure(a) == a # "2xx"

\* RetryTransientMiddleware's classification of an attempt.
Transient(a) == a \in {"5xx", "connect"}

\* Mutant: a policy that allows one retry too many.
should_retry_off_by_one(n_past_retries) == n_past_retries <= MAX_RETRIES

\* The retry policy of make_client: build_with_max_retries(3).
should_retry(n_past_retries) == n_past_retries < MAX_RETRIES

Pending == [ok |-> FALSE, status |-> 0, err |-> "pending", for |-> 0]
OkOutcome(i, status) == [ok |-> TRUE, status |-> status, err |-> "", for |-> i]
ErrOutcome(i, e)     == [ok |-> FALSE, status |-> 0, err |-> e, for |-> i]

\* Mutant: a client built anew for every future instead of a clone.
NewUnitOwnClient(i, c) ==
    [ phase   |-> "send",
      n_past_retries |-> 0,
      status  |-> 0,
      client  |-> clients + i,
      req     |-> BuildRequest(c.urls[i], c.method,
                               RequestBody(c.method, BodyArg(c)), c.headers),
      outcome |-> Pending ]

\* One future of request_many.  n_past_retries is the local of the retry
\* middleware's loop: it lives while send() is pending (phase "send").
NewUnit(i, c) ==
    [ phase   |-> "send",
      n_past_retries |-> 0,
      status  |-> 0,
      client  |-> clients,
      req     |-> BuildRequest(c.urls[i], c.method,
                               RequestBody(c.method, BodyArg(c)), c.headers),
      outcome |-> Pending ]

\* Mutant: one future per distinct URL.
NDistinct == Cardinality({cli.urls[i] : i \in 1..Len(cli.urls)})

\* The number of futures request_many builds: one per entry of urls.
N == Len(cli.urls)
Terminal(u) == u.phase = "done"
AllDone == \A i \in DOMAIN units : Terminal(units[i])

\* is_success(): 200..=299.
is_success(status) == status >= 200 /\ status <= 299

(***************************************************************************)
(* output.rs: the writer.                                                  *)
(***************************************************************************)
\* Mutant: the Latency line written whatever the flag.
RecordFieldsLatencyAlways(output_latency) ==
    <<"Status", "Content-Length", "Headers", "Body", "Latency">>

\* write_result: the lines of one record, in the order they are written.
RecordFields(output_latency) ==
    <<"Status", "Content-Length", "Headers", "Body">>
    \o (IF output_latency THEN <<"Latency">> ELSE <<>>)

RecordLines(res, output_latency) ==
    [ k \in 1..Len(RecordFields(output_latency)) |->
        [ for |-> res.for, field |-> RecordFields(output_latency)[k],
          status |-> res.status ] ]

Min(a, b) == IF a <= b THEN a ELSE b

\* Mutant: a loop that stops one pair short.
ZipLenShort == Len(results) - 1

\* zip: the number of (url, res) pairs the loop of write_results visits.
ZipLen == Min(Len(cli.urls), Len(results))

(***************************************************************************)
(* The initial state: Cli::parse() has returned.                           *)
(***************************************************************************)
NoReport == [errors |-> <<>>, warnings |-> <<>>]
NoParse == [kind |-> "none", key |-> <<>>, value |-> <<>>]
NoReturn == [kind |-> "none", value |-> FALSE]

\* What the output file holds from an earlier run.
OldFile == << [for |-> 0, field |-> "old", status |-> 0] >>

Headers == << <<"Accept", "a">>, <<"Accept", "b">> >>

\* Header lists the functions are applied to on their own: none, a repeated
\* key, and a repeated key with another key in between.
HeadersMixed == << <<"Accept", "a">>, <<"X-Id", "1">>, <<"Accept", "b">> >>
FnHeaders == {<<>>, Headers, HeadersMixed}

CliInputs ==
    { [ urls |-> u, method |-> m, body |-> b[1], json |-> b[2], form |-> b[3],
        headers |-> Headers, output |-> o, latency |-> l ] :
      u \in SeqsUpTo(PipelineUrls, MaxUrls), m \in CliMethod, b \in BodyOptions,
      o \in {None, "out.txt"}, l \in BOOLEAN }

Init ==
    /\ cli \in CliInputs
    /\ pc = "validate"
    /\ report = NoReport
    /\ clients = 0
    /\ units = <<>>
    /\ completion = <<>>
    /\ overtaken = FALSE
    /\ results = <<>>
    /\ writer = None
    /\ sink = IF is_some(cli.output) THEN OldFile ELSE <<>>
    /\ stderr = <<>>
    /\ idx = 0
    /\ had_failure = FALSE
    /\ wr_ret = NoReturn
    /\ exit_code = -1
    /\ header_arg = <<>>
    /\ header_ret = NoParse

(***************************************************************************)
(* main(): validate_cli(&cli).check_and_exit()?                            *)
(***************************************************************************)
Validate ==
    /\ pc = "validate"
    /\ report' = validate_cli(cli)
    /\ stderr' = stderr \o CheckLog(report')
    /\ IF check_and_exit(report')
       THEN pc' = "make_client" /\ exit_code' = exit_code
       ELSE pc' = "done" /\ exit_code' = 1
    /\ UNCHANGED <<header_arg, header_ret,
                   cli, clients, units, completion, overtaken, results, writer, sink,
                   idx, had_failure, wr_ret>>

(***************************************************************************)
(* main(): let client = make_client();                                     *)
(***************************************************************************)
MakeClient ==
    /\ pc = "make_client"
    /\ clients' = clients + 1
    /\ pc' = "request_many"
    /\ UNCHANGED <<header_arg, header_ret,
                   cli, report, units, completion, overtaken, results, writer, sink,
                   stderr, idx, had_failure, wr_ret, exit_code>>

(***************************************************************************)
(* request_many: one future per URL, all polled by join_all; each runs to  *)
(* the send() of its first attempt.                                        *)
(***************************************************************************)
Dispatch ==
    /\ pc = "request_many"
    /\ units' = [i \in 1..N |-> NewUnit(i, cli)]
    /\ pc' = "join_all"
    /\ UNCHANGED <<header_arg, header_ret,
                   cli, report, clients, completion, overtaken, results, writer, sink,
                   stderr, idx, had_failure, wr_ret, exit_code>>

\* Mutant: a policy whose retry count starts over when it reaches the limit,
\* so that retries never run out.
AfterAttemptCountStartsOver(i, u, a) ==
    IF Transient(a)
    THEN [u EXCEPT !.n_past_retries = (u.n_past_retries + 1) % (MAX_RETRIES + 1)]
    ELSE IF a \in {"2xx", "4xx", "5xx"}
    THEN [u EXCEPT !.phase = "read", !.n_past_retries = 0,
                   !.status = StatusOf(a)]
    ELSE [u EXCEPT !.phase = "done", !.n_past_retries = 0,
                   !.outcome = ErrOutcome(i, a)]

\* Mutant: a response that is still 5xx when the retries are used up is
\* turned into an error (error_for_status) instead of being passed on.
AfterAttemptErrorForStatus(i, u, a) ==
    IF Transient(a) /\ should_retry(u.n_past_retries)
    THEN [u EXCEPT !.n_past_retries = u.n_past_retries + 1]
    ELSE IF a \in {"2xx", "4xx"}
    THEN [u EXCEPT !.phase = "read", !.n_past_retries = 0,
                   !.status = StatusOf(a)]
    ELSE [u EXCEPT !.phase = "done", !.n_past_retries = 0,
                   !.outcome = ErrOutcome(i, a)]

\* The unit after its attempt ended in a: retried, passed on to the body
\* read, or failed (builder.send().await?).
AfterAttempt(i, u, a) ==
    IF Transient(a) /\ should_retry(u.n_past_retries)
    THEN [u EXCEPT !.n_past_retries = u.n_past_retries + 1]
    ELSE IF a \in {"2xx", "4xx", "5xx"}
    THEN [u EXCEPT !.phase = "read", !.n_past_retries = 0,
                   !.status = StatusOf(a)]
    ELSE [u EXCEPT !.phase = "done", !.n_past_retries = 0,
                   !.outcome = ErrOutcome(i, a)]

\* Mutant: a response whose body cannot be read is kept, with an empty body.
AfterBodyKeepsResponse(i, u, read_ok) ==
    [u EXCEPT !.phase = "done", !.outcome = OkOutcome(i, u.status)]

\* The unit after resp.text().await?: Ok(HttpResult) or the error.
AfterBody(i, u, read_ok) ==
    IF read_ok
    THEN [u EXCEPT !.phase = "done", !.outcome = OkOutcome(i, u.status)]
    ELSE [u EXCEPT !.phase = "done", !.outcome = ErrOutcome(i, "body")]

\* Mutant: fail-fast (try_join_all): an Err of one future ends the others.
UnitStepFailFast(i, u) ==
    [j \in DOMAIN units |->
        IF j = i THEN u
        ELSE IF Terminal(u) /\ ~u.outcome.ok /\ ~Terminal(units[j])
        THEN [units[j] EXCEPT !.phase = "done", !.n_past_retries = 0,
                              !.outcome = ErrOutcome(j, "cancelled")]
        ELSE units[j]]

\* The units after unit i moved to u: a step of one future touches no other.
UnitStep(i, u) == [units EXCEPT ![i] = u]

Completed(i, u) == IF Terminal(u) THEN Append(completion, i) ELSE completion

\* Unit i, now u, is ready while a unit before it is not.
Overtakes(i, u) ==
    Terminal(u) /\ \E j \in DOMAIN units : j < i /\ ~Terminal(units[j])

\* Mutant: the futures awaited one after the other, in submission order.
PolledInOrder(i) == \A k \in 1..(i - 1) : Terminal(units[k])

\* join_all polls every future that is not ready: a future can make
\* progress whatever the state of the others.
Polled(i) == TRUE

\* What send() can end in for a request: client.request(method, url) keeps
\* the error of a URL that does not parse, and send() returns it without an
\* attempt on the network.
SendResults(url) == IF url_parses(url) THEN AttemptResults ELSE {"fatal"}

AttemptEnds(i, a) ==
    /\ pc = "join_all"
    /\ Polled(i)
    /\ units[i].phase = "send"
    /\ a \in SendResults(units[i].req.url)
    /\ units' = UnitStep(i, AfterAttempt(i, units[i], a))
    /\ completion' = Completed(i, units'[i])
    /\ overtaken' = (overtaken \/ Overtakes(i, units'[i]))
    /\ UNCHANGED <<header_arg, header_ret,
                   cli, pc, report, clients, results, writer, sink,
                   stderr, idx, had_failure, wr_ret, exit_code>>

BodyRead(i, read_ok) ==
    /\ pc = "join_all"
    /\ Polled(i)
    /\ units[i].phase = "read"
    /\ units' = UnitStep(i, AfterBody(i, units[i], read_ok))
    /\ completion' = Completed(i, units'[i])
    /\ overtaken' = (overtaken \/ Overtakes(i, units'[i]))
    /\ UNCHANGED <<header_arg, header_ret,
                   cli, pc, report, clients, results, writer, sink,
                   stderr, idx, had_failure, wr_ret, exit_code>>

\* Mutant: the output in the order the futures became ready.
JoinOutputAsCompleted ==
    [k \in 1..Len(completion) |-> units[completion[k]].outcome]

\* Mutant: ready as soon as one future is (select, not join).
JoinReadyAny == \E i \in DOMAIN units : Terminal(units[i])

\* join_all is ready when every future is; its output is in the order of
\* the futures it was given.  Returning, it consumes the futures.
JoinReady == AllDone
JoinOutput == [i \in DOMAIN units |-> units[i].outcome]

JoinAll ==
    /\ pc = "join_all"
    /\ JoinReady
    /\ results' = JoinOutput
    /\ units' = <<>>
    /\ completion' = <<>>
    /\ pc' = "build_writer"
    /\ UNCHANGED <<header_arg, header_ret,
                   cli, report, clients, overtaken, writer, sink,
                   stderr, idx, had_failure, wr_ret, exit_code>>

(***************************************************************************)
(* main(): let writer = build_writer(&cli.output)?                         *)
(* File::create succeeds (the file is created or truncated) or fails.      *)
(***************************************************************************)
\* Mutant: the file opened for appending.
FileOpenAppend(old) == old

\* File::create(path): what the file holds once it is created or truncated.
FileCreate(old) == <<>>

BuildWriter(created) ==
    /\ pc = "build_writer"
    /\ IF ~is_some(cli.output)
       THEN /\ created
            /\ writer' = "stdout"
            /\ sink' = sink
            /\ pc' = "write_results"
            /\ exit_code' = exit_code
       ELSE IF created
       THEN /\ writer' = "file"
            /\ sink' = FileCreate(sink)
            /\ pc' = "write_results"
            /\ exit_code' = exit_code
       ELSE /\ writer' = writer
            /\ sink' = sink
            /\ pc' = "done"
            /\ exit_code' = 1
    /\ UNCHANGED <<header_arg, header_ret,
                   cli, report, clients, units, completion, overtaken, results,
                   stderr, idx, had_failure, wr_ret>>

(***************************************************************************)
(* write_results: one iteration of the loop over urls.iter().zip(results). *)
(* io is the number of lines of the record the sink accepts: all of them   *)
(* and the flush (io > the number of lines), all of them but not the       *)
(* flush, or fewer.  An I/O error leaves write_results and main through    *)
(* their ?: the process ends with the exit code of an Err from main.       *)
(***************************************************************************)
IoChoices(res, output_latency) ==
    IF res.ok THEN 0..(Len(RecordLines(res, output_latency)) + 1)
    ELSE {0}

\* Mutant: the results of writeln! and flush are dropped instead of
\* propagated with ?.
IoOkIgnored(res, output_latency, io) == TRUE

\* Every writeln! and the flush of this iteration returned Ok.
IoOk(res, output_latency, io) ==
    ~res.ok \/ io > Len(RecordLines(res, output_latency))

\* Mutant: only the responses with a success status are written.
WrittenOnlySuccess(res, output_latency, io) ==
    IF ~res.ok \/ ~is_success(res.status) THEN <<>>
    ELSE SubSeq(RecordLines(res, output_latency), 1,
                Min(io, Len(RecordLines(res, output_latency))))

\* The lines that reach the sink in this iteration.
Written(res, output_latency, io) ==
    IF ~res.ok THEN <<>>
    ELSE SubSeq(RecordLines(res, output_latency), 1,
                Min(io, Len(RecordLines(res, output_latency))))

\* Mutant: an Err outcome is dropped without a report.
ReportedStatusOnly(url, res) ==
    IF res.ok /\ ~is_success(res.status)
    THEN << ReturnedLine(url, res.status) >> ELSE <<>>

\* The eprintln! of this iteration, if any.
Reported(url, res) ==
    IF res.ok
    THEN (IF ~is_success(res.status)
          THEN << ReturnedLine(url, res.status) >> ELSE <<>>)
    ELSE << FailedLine(url, res.err) >>

\* Mutant: had_failure assigned from the last pair instead of accumulated.
HadFailureOfLast(hf, res) == ~res.ok \/ ~is_success(res.status)

\* had_failure after this iteration.
HadFailureAfter(hf, res) ==
    IF res.ok
    THEN (IF ~is_success(res.status) THEN TRUE ELSE hf)
    ELSE TRUE

\* Mutant: the results taken from the back of the vector (pop).
ZipPairFromBack(k) ==
    [url |-> cli.urls[k], res |-> results[Len(results) + 1 - k]]

\* zip: the k-th pair of the loop.
ZipPair(k) == [url |-> cli.urls[k], res |-> results[k]]

WriteStep(io) ==
    /\ pc = "write_results"
    /\ idx < ZipLen
    /\ LET url == ZipPair(idx + 1).url
           res == ZipPair(idx + 1).res
       IN  /\ io \in IoChoices(res, cli.latency)
           /\ sink' = sink \o Written(res, cli.latency, io)
           /\ IF IoOk(res, cli.latency, io)
              THEN /\ stderr' = stderr \o Reported(url, res)
                   /\ had_failure' = HadFailureAfter(had_failure, res)
                   /\ idx' = idx + 1
                   /\ UNCHANGED <<pc, wr_ret, exit_code>>
              ELSE /\ wr_ret' = [kind |-> "err", value |-> FALSE]
                   /\ pc' = "done"
                   /\ exit_code' = 1
                   /\ UNCHANGED <<stderr, had_failure, idx>>
    /\ UNCHANGED <<header_arg, header_ret,
                   cli, report, clients, units, completion, overtaken, results, writer>>

\* The loop is over: Ok(had_failure).
WriteResultsReturn ==
    /\ pc = "write_results"
    /\ idx = ZipLen
    /\ wr_ret' = [kind |-> "ok", value |-> had_failure]
    /\ pc' = "main_tail"
    /\ UNCHANGED <<header_arg, header_ret,
                   cli, report, clients, units, completion, overtaken, results, writer,
                   sink, stderr, idx, had_failure, exit_code>>

(***************************************************************************)
(* main(): if had_failure { exit(1) }  Ok(())                              *)
(***************************************************************************)
\* Mutant: main that ignores had_failure and returns Ok(()).
ExitCodeIgnoresFailure(failed) == 0

ExitCode(failed) == IF failed THEN 1 ELSE 0

Exit ==
    /\ pc = "main_tail"
    /\ exit_code' = ExitCode(wr_ret.value)
    /\ pc' = "done"
    /\ UNCHANGED <<header_arg, header_ret,
                   cli, report, clients, units, completion, overtaken, results, writer,
                   sink, stderr, idx, had_failure, wr_ret>>

Next ==
    \/ Validate
    \/ MakeClient
    \/ Dispatch
    \/ \E i \in DOMAIN units, a \in AttemptResults : AttemptEnds(i, a)
    \/ \E i \in DOMAIN units, read_ok \in BOOLEAN : BodyRead(i, read_ok)
    \/ JoinAll
    \/ \E created \in BOOLEAN : BuildWriter(created)
    \/ \E io \in 0..6 : WriteStep(io)
    \/ WriteResultsReturn
    \/ Exit

Spec == Init /\ [][Next]_vars

(***************************************************************************)
(* Scheduling.  The client is built with a per-request timeout, so the     *)
(* attempt in flight and the body read of every request end; the executor  *)
(* polls every future of join_all that can make progress, and join_all     *)
(* returns once all of them are ready.  What an attempt ends in is not     *)
(* constrained.                                                            *)
(***************************************************************************)
UnitFair(i) ==
    /\ WF_vars(i \in DOMAIN units /\ \E a \in AttemptResults : AttemptEnds(i, a))
    /\ WF_vars(i \in DOMAIN units /\ \E read_ok \in BOOLEAN : BodyRead(i, read_ok))

Fairness == (\A i \in 1..MaxUrls : UnitFair(i)) /\ WF_vars(JoinAll)

\* request_many sees neither the output path nor the latency flag: the
\* runs under fair scheduling are those that write to stdout without latency.
FairInit == Init /\ cli.output = None /\ ~cli.latency

FairSpec == FairInit /\ [][Next]_vars /\ Fairness

(***************************************************************************)
(* The pipeline on URLs that pass validation, some of which are not URLs.  *)
(***************************************************************************)
MalformedInputs ==
    { [ urls |-> u, method |-> m, body |-> None, json |-> None, form |-> None,
        headers |-> Headers, output |-> o, latency |-> FALSE ] :
      u \in SeqsUpTo({UrlHttp, UrlBadHost}, MaxUrls), m \in {"Get", "Post"},
      o \in {None, "out.txt"} }

MalformedInit ==
    /\ cli \in MalformedInputs
    /\ pc = "validate"
    /\ report = NoReport
    /\ clients = 0
    /\ units = <<>>
    /\ completion = <<>>
    /\ overtaken = FALSE
    /\ results = <<>>
    /\ writer = None
    /\ sink = IF is_some(cli.output) THEN OldFile ELSE <<>>
    /\ stderr = <<>>
    /\ idx = 0
    /\ had_failure = FALSE
    /\ wr_ret = NoReturn
    /\ exit_code = -1
    /\ header_arg = <<>>
    /\ header_ret = NoParse

MalformedSpec == MalformedInit /\ [][Next]_vars

(***************************************************************************)
(* write_results called by main at the end of the pipeline, or on its own  *)
(* with any urls and any outcome vector, of equal lengths or not.          *)
(***************************************************************************)
Outcomes(k) == {OkOutcome(k, 200), OkOutcome(k, 404), ErrOutcome(k, "connect")}

OutcomeVectors ==
    UNION { {r \in [1..n -> UNION {Outcomes(k) : k \in 1..n}] :
                \A k \in 1..n : r[k] \in Outcomes(k)} : n \in 1..MaxUrls }

WriteInit ==
    /\ cli \in { [ urls |-> u, method |-> "Get", body |-> None, json |-> None,
                   form |-> None, headers |-> <<>>, output |-> None,
                   latency |-> l ] :
                 u \in SeqsUpTo({UrlHttp, UrlHttps}, MaxUrls), l \in BOOLEAN }
    /\ results \in OutcomeVectors
    /\ pc = "write_results"
    /\ report = NoReport
    /\ clients = 0
    /\ units = <<>>
    /\ completion = <<>>
    /\ overtaken = FALSE
    /\ writer = "stdout"
    /\ sink = <<>>
    /\ stderr = <<>>
    /\ idx = 0
    /\ had_failure = FALSE
    /\ wr_ret = NoReturn
    /\ exit_code = -1
    /\ header_arg = <<>>
    /\ header_ret = NoParse

ZipSpec == (Init \/ WriteInit) /\ [][Next]_vars

(***************************************************************************)
(* main.rs: the copies of valid_url, validate_cli, request_many,           *)
(* write_result and write_results that the binary is built from.           *)
(***************************************************************************)
main_valid_url(url) ==
    starts_with(url, HttpPrefix) \/ starts_with(url, HttpsPrefix)

\* Mutant: a copy that was not given the JSON rule.
main_validate_cli_without_json(c) ==
    LET invalid == SelectSeq(c.urls, LAMBDA url : ~main_valid_url(url))
        count   == Len(SelectSeq(<<c.body, c.json, c.form>>,
                                 LAMBDA opt : opt # None))
    IN  [ errors   |->
              [k \in 1..Len(invalid) |-> <<"Invalid URL", invalid[k]>>]
              \o (IF count > 1
                  THEN << <<"Can't have more than one of body, json, and form">> >>
                  ELSE <<>>),
          warnings |->
              IF (c.method = "Get" \/ c.method = "Delete")
                 /\ (c.body # None \/ c.json # None \/ c.form # None)
              THEN << <<"Body not allowed for GET or DELETE">> >>
              ELSE <<>> ]

\* validate_cli of main.rs: the loop over the urls, the warning, the count
\* of body, json and form, the JSON rule; the report is returned at the end.
main_validate_cli(c) ==
    LET invalid == SelectSeq(c.urls, LAMBDA url : ~main_valid_url(url))
        count   == Len(SelectSeq(<<c.body, c.json, c.form>>,
                                 LAMBDA opt : opt # None))
    IN  [ errors   |->
              [k \in 1..Len(invalid) |-> <<"Invalid URL", invalid[k]>>]
              \o (IF count > 1
                  THEN << <<"Can't have more than one of body, json, and form">> >>
                  ELSE <<>>)
              \o (IF c.json # None /\ ~json_parses(c.json)
                  THEN << <<"JSON is not valid: ", c.json>> >>
                  ELSE <<>>),
          warnings |->
              IF (c.method = "Get" \/ c.method = "Delete")
                 /\ (c.body # None \/ c.json # None \/ c.form # None)
              THEN << <<"Body not allowed for GET or DELETE">> >>
              ELSE <<>> ]

\* request_many of main.rs: the request each future issues, one future per
\* url in the order of urls; the match on the method chooses the body.
main_request_many(urls, method, body, headers) ==
    [ i \in 1..Len(urls) |->
        BuildRequest(urls[i], method,
                     IF method \in {"Post", "Put"} THEN body ELSE None,
                     headers) ]

\* write_result of main.rs: the lines of one record.
main_write_result(http_result, output_latency) ==
    LET fields == IF output_latency
                  THEN <<"Status", "Content-Length", "Headers", "Body", "Latency">>
                  ELSE <<"Status", "Content-Length", "Headers", "Body">>
    IN  [ k \in 1..Len(fields) |->
            [for |-> http_result.for, field |-> fields[k],
             status |-> http_result.status] ]

\* write_results of main.rs after n iterations of its loop in which every
\* write returned Ok: the sink, the error channel and had_failure.
RECURSIVE main_write_results(_, _, _, _)
main_write_results(urls, rs, latency, n) ==
    IF n = 0
    THEN [sink |-> <<>>, stderr |-> <<>>, had_failure |-> FALSE]
    ELSE LET prev == main_write_results(urls, rs, latency, n - 1)
             url  == urls[n]
             res  == rs[n]
         IN  IF res.ok
             THEN IF ~is_success(res.status)
                  THEN [sink |-> prev.sink \o main_write_result(res, latency),
                        stderr |-> Append(prev.stderr, ReturnedLine(url, res.status)),
                        had_failure |-> TRUE]
                  ELSE [sink |-> prev.sink \o main_write_result(res, latency),
                        stderr |-> prev.stderr,
                        had_failure |-> prev.had_failure]
             ELSE [sink |-> prev.sink,
                   stderr |-> Append(prev.stderr, FailedLine(url, res.err)),
                   had_failure |-> TRUE]

(***************************************************************************)
(* The functions on their own.  validate_cli, the body selection of main   *)
(* and the dispatch of request_many are applied to every Cli of FnInputs,  *)
(* also to those main stops at validation: the unit tests call the         *)
(* functions in this way, and it is the only way to see what they do with  *)
(* more than one of body, json and form.                                   *)
(***************************************************************************)
FnInputs ==
    { [ urls |-> u, method |-> m, body |-> b, json |-> j, form |-> f,
        headers |-> h, output |-> None, latency |-> FALSE ] :
      u \in SeqsUpTo(FnUrls, MaxUrls), m \in CliMethod,
      b \in {None, "raw"}, j \in {None, JsonGood, JsonBad, JsonEmpty},
      f \in {None, "f=1"}, h \in FnHeaders }

FnInit ==
    /\ cli \in FnInputs
    /\ pc = "fn"
    /\ report = NoReport
    /\ clients = 0
    /\ units = <<>>
    /\ completion = <<>>
    /\ overtaken = FALSE
    /\ results = <<>>
    /\ writer = None
    /\ sink = <<>>
    /\ stderr = <<>>
    /\ idx = 0
    /\ had_failure = FALSE
    /\ wr_ret = NoReturn
    /\ exit_code = -1
    /\ header_arg = <<>>
    /\ header_ret = NoParse

\* Mutant: a validator that appends to the report of the call before.
ReportAfterAccumulating(prev, c) ==
    [ errors   |-> prev.errors \o validate_cli(c).errors,
      warnings |-> prev.warnings \o validate_cli(c).warnings ]

\* The report a call of validate_cli returns when prev is the report of the
\* call before: it starts from ValidationReport::default() every time.
ReportAfter(prev, c) == validate_cli(c)

\* validate_cli(&cli)
FnValidate ==
    /\ pc = "fn"
    /\ report' = ReportAfter(report, cli)
    /\ pc' = "fn_validated"
    /\ UNCHANGED <<header_arg, header_ret,
                   cli, clients, units, completion, overtaken, results, writer,
                   sink, stderr, idx, had_failure, wr_ret, exit_code>>

\* validate_cli(&cli) once more, on the same Cli.
FnValidateAgain ==
    /\ pc = "fn_validated"
    /\ report' = ReportAfter(report, cli)
    /\ pc' = "fn_validated_again"
    /\ UNCHANGED <<header_arg, header_ret,
                   cli, clients, units, completion, overtaken, results, writer,
                   sink, stderr, idx, had_failure, wr_ret, exit_code>>

\* The body selection of main and request_many up to the futures it builds.
FnRequestMany ==
    /\ pc = "fn_validated_again"
    /\ units' = [i \in 1..N |-> NewUnit(i, cli)]
    /\ pc' = "fn_dispatched"
    /\ UNCHANGED <<header_arg, header_ret,
                   cli, report, clients, completion, overtaken, results, writer,
                   sink, stderr, idx, had_failure, wr_ret, exit_code>>

FnNext == FnValidate \/ FnValidateAgain \/ FnRequestMany

FnSpec == FnInit /\ [][FnNext]_vars

\* request() called on its own for the first URL, with the method of the
\* Cli and the body main selects, whatever the method.
FnRequest ==
    /\ pc = "fn_validated_again"
    /\ units' = << [NewUnit(1, cli) EXCEPT
                      !.req = BuildRequest(cli.urls[1], cli.method,
                                           BodyArg(cli), cli.headers)] >>
    /\ pc' = "fn_requested"
    /\ UNCHANGED <<header_arg, header_ret,
                   cli, report, clients, completion, overtaken, results, writer,
                   sink, stderr, idx, had_failure, wr_ret, exit_code>>

RequestNext == FnNext \/ FnRequest

RequestSpec == FnInit /\ [][RequestNext]_vars

(***************************************************************************)
(* parse_key_val on its own, as clap calls it for every -H argument.       *)
(***************************************************************************)
HeaderArgs == {<<>>} \cup SeqsUpTo(Chars, MaxArgLen)

ParseInit ==
    /\ header_arg \in HeaderArgs
    /\ header_ret = NoParse
    /\ cli \in {c \in FnInputs : c.urls = <<UrlHttp>> /\ c.method = "Get"
                                 /\ c.body = None /\ c.json = None
                                 /\ c.form = None /\ c.headers = <<>>}
    /\ pc = "parse"
    /\ report = NoReport
    /\ clients = 0
    /\ units = <<>>
    /\ completion = <<>>
    /\ overtaken = FALSE
    /\ results = <<>>
    /\ writer = None
    /\ sink = <<>>
    /\ stderr = <<>>
    /\ idx = 0
    /\ had_failure = FALSE
    /\ wr_ret = NoReturn
    /\ exit_code = -1

ParseKeyVal ==
    /\ pc = "parse"
    /\ header_ret' = parse_key_val(header_arg)
    /\ pc' = "parsed"
    /\ UNCHANGED <<header_arg, cli, report, clients, units, completion, overtaken,
                   results, writer, sink, stderr, idx, had_failure, wr_ret,
                   exit_code>>

ParseNext == ParseKeyVal

ParseSpec == ParseInit /\ [][ParseNext]_vars

(***************************************************************************)
(* Properties.                                                             *)
(***************************************************************************)
Joined == results # <<>>
RecordLinesIn(q) == SelectSeq(q, LAMBDA l : l.for # 0)
LinesFor(i) == SelectSeq(sink, LAMBDA l : l.for = i)
FailedLines == SelectSeq(stderr, LAMBDA l : l.kind = "failed")
Good(r) == r.ok /\ r.status >= 200 /\ r.status <= 299

\* C1: request_many returns exactly N outcomes, and outcome i is the outcome
\* of the request issued for input URL i, whatever the order in which the
\* requests completed: while the requests run, request i is the one for
\* URL i, and the vector returned holds at index i the outcome of request i.
C1_SubmissionOrder ==
    /\ \A i \in DOMAIN units :
          /\ DOMAIN units = 1..N
          /\ units[i].req.url = cli.urls[i]
          /\ Terminal(units[i]) => units[i].outcome.for = i
    /\ Joined =>
          /\ Len(results) = N
          /\ \A i \in 1..N : results[i].for = i /\ results[i] # Pending

\* C1 witness: request_many has returned for two URLs, the second of which
\* completed first.
C1_Witness ==
    /\ Joined
    /\ Len(results) = 2
    /\ overtaken
    /\ results[1].for = 1 /\ results[2].for = 2

\* C2: when validate_cli reports an error, the run ends with a non-zero
\* exit, no client is ever made and no request is ever issued, also for the
\* valid URLs of the batch.
C2_ErrorsBlock ==
    has_errors(validate_cli(cli)) =>
        /\ pc \in {"validate", "done"}
        /\ clients = 0
        /\ units = <<>> /\ results = <<>> /\ completion = <<>> /\ ~overtaken
        /\ pc = "done" => exit_code = 1 /\ report = validate_cli(cli)
        /\ pc = "validate" => exit_code = -1

\* C2 witness: a batch of a valid and an invalid URL has ended.
C2_Witness ==
    /\ pc = "done"
    /\ has_errors(report)
    /\ Len(cli.urls) = 2
    /\ valid_url(cli.urls[1]) /\ ~valid_url(cli.urls[2])
    /\ exit_code = 1 /\ clients = 0

NoValidationError == ~has_errors(validate_cli(cli))
AllGood == Len(results) = N /\ \A i \in 1..N : Good(results[i])
Exited == pc = "done"

\* C3 as claimed: the process exits with 0 if and only if validation
\* produced no error and every URL's outcome is an HttpResult with a 2xx
\* status.
C3_Original ==
    Exited => (exit_code = 0 <=> (NoValidationError /\ AllGood))

\* C3 as amended: the process exits with 0 if and only if validation
\* produced no error, every URL's outcome is an HttpResult with a 2xx
\* status, and the sink was opened and took every record without an I/O
\* error (write_results returned Ok); in every other case it exits with a
\* non-zero code.
C3_ExitCode ==
    Exited =>
        /\ exit_code \in {0, 1}
        /\ exit_code = 0 <=>
              (NoValidationError /\ AllGood /\ wr_ret.kind = "ok")
        /\ (~NoValidationError \/ (Joined /\ ~AllGood)) => exit_code # 0

\* C3 witness: a run of two URLs whose outcomes are both 2xx has exited
\* with 0.
C3_Witness ==
    /\ Exited /\ exit_code = 0
    /\ Len(results) = 2 /\ Good(results[1]) /\ Good(results[2])

\* C4: a failure of one request changes nothing about another: a step of
\* one unit leaves every other unit as it was, what a unit becomes depends
\* on its own state and on how its own attempt or body read ended, and
\* join_all returns only the units' own terminal outcomes.
C4_Independent ==
    [][ /\ \A i \in DOMAIN units :
              (units' # <<>> /\ units'[i] # units[i]) =>
                  /\ \A j \in DOMAIN units \ {i} : units'[j] = units[j]
                  /\ \/ \E a \in AttemptResults :
                            units'[i] = AfterAttempt(i, units[i], a)
                     \/ \E read_ok \in BOOLEAN :
                            units'[i] = AfterBody(i, units[i], read_ok)
        /\ (units # <<>> /\ units' = <<>>) =>
              /\ \A i \in DOMAIN units : Terminal(units[i])
              /\ results' = [i \in DOMAIN units |-> units[i].outcome]
      ]_vars

\* C4 witness: the request for URL 1 ended in an error first, and the
\* request for URL 2 then ran to a 200 response.
C4_Witness ==
    /\ Joined /\ Len(results) = 2
    /\ ~overtaken
    /\ ~results[1].ok
    /\ Good(results[2])

\* C5: request_many returns only when every unit has a terminal outcome,
\* and until it has returned nothing of any record is in the sink, no
\* writer exists and write_results has not been entered.
C5_JoinBarrier ==
    /\ Joined =>
          /\ Len(results) = N
          /\ \A i \in 1..N : results[i] # Pending
    /\ ~Joined =>
          /\ RecordLinesIn(sink) = <<>>
          /\ writer = None
          /\ idx = 0 /\ wr_ret = NoReturn
          /\ pc \notin {"build_writer", "write_results", "main_tail"}

\* C5 witness: a record is in the sink, for a batch of two URLs of which
\* the second completed first.
C5_Witness ==
    /\ RecordLinesIn(sink) # <<>>
    /\ Len(results) = 2
    /\ overtaken

Failed(r) == ~r.ok \/ r.status < 200 \/ r.status > 299
Consumed == 1..idx
FieldsFor(i) == [k \in 1..Len(LinesFor(i)) |-> LinesFor(i)[k].field]
FullRecord(i) ==
    /\ FieldsFor(i) \in
          { <<"Status", "Content-Length", "Headers", "Body">>,
            <<"Status", "Content-Length", "Headers", "Body", "Latency">> }
    /\ \A k \in 1..Len(LinesFor(i)) : LinesFor(i)[k].status = results[i].status
ErrorsIn(S) == {i \in S : ~results[i].ok}

\* C6: the boolean write_results returns is TRUE exactly when some outcome
\* of the batch is an error or an HttpResult with a status outside 200-299
\* (FALSE when all are 2xx); inside the loop had_failure says the same of
\* the outcomes consumed so far.
C6_HadFailure ==
    /\ pc = "write_results" =>
          (had_failure <=> \E i \in Consumed : Failed(results[i]))
    /\ wr_ret.kind = "ok" =>
          /\ wr_ret.value <=> \E i \in 1..Len(results) : Failed(results[i])
          /\ (\A i \in 1..Len(results) : Good(results[i])) => ~wr_ret.value

\* C6 witness: write_results returned TRUE for a 500 response followed by
\* a 200 response.
C6_Witness ==
    /\ wr_ret.kind = "ok" /\ wr_ret.value
    /\ Len(results) = 2
    /\ results[1].ok /\ results[1].status = 500
    /\ Good(results[2])

\* C7: every URL whose outcome is an HttpResult, and that the loop has
\* passed, has exactly one full record in the sink, 2xx or not; when
\* write_results returns its boolean the loop has passed every URL, and with
\* a non-2xx response in the batch the boolean is TRUE.
C7_RecordForEveryResponse ==
    /\ \A i \in Consumed : results[i].ok => FullRecord(i)
    /\ wr_ret.kind = "ok" =>
          /\ idx = N /\ Len(results) = N
          /\ (\E i \in 1..N : results[i].ok /\ results[i].status = 500)
                => wr_ret.value

\* C7 witness: write_results returned TRUE for a 200 and a 500 response,
\* and both records are in the sink.
C7_Witness ==
    /\ wr_ret.kind = "ok" /\ wr_ret.value
    /\ Len(results) = 2
    /\ Good(results[1])
    /\ results[2].ok /\ results[2].status = 500
    /\ FullRecord(1) /\ FullRecord(2)

\* C8: for a URL whose outcome is an error nothing is in the sink, one
\* line on the error channel reports it and had_failure is set; the URLs
\* around it whose outcomes are HttpResults still have their records.
C8_ErrorOutcome ==
    /\ \A i \in Consumed :
          ~results[i].ok =>
              /\ LinesFor(i) = <<>>
              /\ \E k \in 1..Len(FailedLines) :
                    /\ FailedLines[k].url = cli.urls[i]
                    /\ FailedLines[k].err = results[i].err
              /\ had_failure
    /\ Len(FailedLines) = Cardinality(ErrorsIn(Consumed))
    /\ wr_ret.kind = "ok" =>
          /\ wr_ret.value <=> had_failure
          /\ \A j \in 1..N : results[j].ok => LinesFor(j) # <<>>

\* C8 witness: write_results returned after an error outcome for URL 1 and
\* an HttpResult for URL 2, whose record is in the sink.
C8_Witness ==
    /\ wr_ret.kind = "ok" /\ wr_ret.value
    /\ Len(results) = 2
    /\ ~results[1].ok /\ results[2].ok
    /\ LinesFor(1) = <<>> /\ LinesFor(2) # <<>>
    /\ Len(FailedLines) = 1

\* C9: the records in the sink are in input URL order and not interleaved:
\* a line of the record of URL i is never after a line of the record of a
\* URL j > i.
C9_SinkOrder ==
    \A p, q \in 1..Len(sink) :
        (p < q /\ sink[p].for # 0) => sink[p].for <= sink[q].for

\* C9 witness: the records of two URLs are in the sink, the second of which
\* completed first.
C9_Witness ==
    /\ overtaken
    /\ Len(results) = 2
    /\ LinesFor(1) # <<>> /\ LinesFor(2) # <<>>

AllHandled ==
    /\ idx = Len(results)
    /\ \A i \in 1..Len(results) : results[i].ok => LinesFor(i) # <<>>
    /\ Len(FailedLines) = Cardinality(ErrorsIn(1..Len(results)))
ExitDecided == exit_code # -1

\* C10 as claimed: when the process has decided its exit code, every
\* outcome of the vector has been processed by the aggregator.
C10_Original == (ExitDecided /\ Joined) => AllHandled

\* C10 as amended: when the process decides its exit code from had_failure,
\* every outcome of the vector has been processed (a record written or an
\* error reported); outcomes are skipped only when the sink cannot be opened
\* or a write to it fails, and the process then exits with a non-zero code.
C10_AllAggregated ==
    /\ wr_ret.kind = "ok" => AllHandled
    /\ (ExitDecided /\ Joined) =>
          \/ wr_ret.kind = "ok" /\ AllHandled
          \/ wr_ret.kind # "ok" /\ exit_code = 1

\* C10 witness: the process has exited after an HttpResult and an error
\* outcome were both processed.
C10_Witness ==
    /\ Exited /\ wr_ret.kind = "ok"
    /\ Len(results) = 2
    /\ results[1].ok /\ ~results[2].ok
    /\ AllHandled

\* The terminal outcome of URL i, looked up by the URL it belongs to and not
\* by its place in the vector.
OutcomeFor(i) ==
    CHOOSE r \in {results[k] : k \in 1..Len(results)} : r.for = i
FailedFor(i) ==
    ~OutcomeFor(i).ok \/ OutcomeFor(i).status < 200 \/ OutcomeFor(i).status > 299

\* The sink and the exit code as functions of the input and of the per-URL
\* outcomes alone: the records of URLs 1..n in URL order, and 1 exactly
\* when some URL failed.
RECURSIVE ExpectedSink(_)
ExpectedSink(n) ==
    IF n = 0 THEN <<>>
    ELSE ExpectedSink(n - 1)
         \o (IF OutcomeFor(n).ok
             THEN [k \in 1..4 |->
                     [for |-> n,
                      field |-> <<"Status", "Content-Length", "Headers", "Body">>[k],
                      status |-> OutcomeFor(n).status]]
             ELSE <<>>)
ExpectedExit == IF \E i \in 1..Len(results) : FailedFor(i) THEN 1 ELSE 0
IsPrefix(p, q) == Len(p) <= Len(q) /\ SubSeq(q, 1, Len(p)) = p

\* C11: with latency reporting off, the sink contents and the exit code are
\* a function of the input and of the per-URL terminal outcomes, whatever
\* the order in which the requests completed: once write_results has
\* returned Ok the sink holds exactly the records of the URLs in URL order
\* and the exit code is 1 exactly when some URL failed; at every earlier
\* point (and when a write fails) the sink holds a prefix of those records.
C11_Deterministic ==
    (Joined /\ writer # None /\ ~cli.latency) =>
        /\ IsPrefix(sink, ExpectedSink(Len(results)))
        /\ wr_ret.kind = "ok" => sink = ExpectedSink(Len(results))
        /\ (Exited /\ wr_ret.kind = "ok") => exit_code = ExpectedExit

\* C11 witness: a run whose requests completed out of submission order has
\* exited after writing two records, with the sink and the exit code the
\* function gives.
C11_Witness ==
    /\ overtaken /\ Exited /\ wr_ret.kind = "ok" /\ ~cli.latency
    /\ Len(results) = 2 /\ results[1].ok /\ results[2].ok
    /\ results[1].status # results[2].status
    /\ sink = ExpectedSink(2)
    /\ exit_code = ExpectedExit

\* The physical attempts URL i has started so far while it is being sent:
\* the first attempt plus the retries made.
Attempts(u) == 1 + u.n_past_retries

\* C12: no URL ever undergoes more than 4 physical attempts (the first
\* attempt plus at most 3 retries), in any interleaving and after any
\* pattern of failures.
C12_AtMostFourAttempts ==
    \A i \in DOMAIN units : Attempts(units[i]) <= 4

\* C12 witness: the fourth attempt of URL 1 is in flight while URL 2 is
\* still on its first.
C12_Witness ==
    /\ Len(units) = 2
    /\ units[1].phase = "send" /\ Attempts(units[1]) = 4
    /\ units[2].phase = "send" /\ Attempts(units[2]) = 1

\* A step in which the attempt of URL i that was in flight has ended, and
\* the attempt results that account for the step.
SendStep(i) ==
    /\ i \in DOMAIN units /\ i \in DOMAIN units'
    /\ units[i].phase = "send"
    /\ units'[i] # units[i]
Explains(i, a) == units'[i] = AfterAttempt(i, units[i], a)
Retried(i) ==
    /\ units'[i].phase = "send"
    /\ units'[i].n_past_retries = units[i].n_past_retries + 1

LastAttemptEnds(i) == SendStep(i) /\ Attempts(units[i]) = 4

\* C14 as claimed: when the last allowed attempt of a URL ends in a
\* transient failure (the three before it did, or it would not have been
\* made), the URL ends in an error outcome.
C14_Original ==
    [][\A i \in DOMAIN units :
          (LastAttemptEnds(i) /\ \E a \in {"5xx", "connect"} : Explains(i, a)) =>
              units'[i].phase = "done" /\ ~units'[i].outcome.ok]_vars

\* C14 as amended: when every allowed attempt of a URL ended in a transient
\* failure, the outcome is an error if the last attempt ended in a
\* connection failure or timeout; if it ended in a 5xx response, that
\* response is passed on and the outcome is an HttpResult with the 5xx
\* status, or an error only when its body cannot be read.  A 5xx response
\* is passed on only by the last allowed attempt.
C14_Exhausted ==
    [][\A i \in DOMAIN units :
          /\ (LastAttemptEnds(i) /\ Explains(i, "connect")) =>
                /\ units'[i].phase = "done"
                /\ ~units'[i].outcome.ok /\ units'[i].outcome.err = "connect"
          /\ (LastAttemptEnds(i) /\ Explains(i, "5xx")) =>
                /\ units'[i].phase = "read"
                /\ units'[i].status = 500
          /\ (SendStep(i) /\ units'[i].phase = "read" /\ units'[i].status = 500) =>
                LastAttemptEnds(i)
          /\ ( /\ i \in DOMAIN units'
               /\ units[i].phase = "read" /\ units[i].status = 500
               /\ units'[i] # units[i] ) =>
                /\ units'[i].phase = "done"
                /\ \/ units'[i].outcome.ok /\ units'[i].outcome.status = 500
                   \/ ~units'[i].outcome.ok /\ units'[i].outcome.err = "body"]_vars

\* C14 witness: request_many has returned an HttpResult with status 500
\* for URL 1, whose attempts all ended in a transient failure, and an error
\* for URL 2, whose attempts all ended in a connection failure.
C14_Witness ==
    /\ Joined /\ Len(results) = 2
    /\ results[1].ok /\ results[1].status = 500
    /\ ~results[2].ok /\ results[2].err = "connect"

\* C15: once the batch is dispatched, every request reaches a terminal
\* outcome and request_many returns with an outcome for every URL, given
\* that every attempt ends and scheduling is fair; the batch is never left
\* with a request that has no outcome (no cancellation, no early abort).
C15_Terminates ==
    /\ (pc = "join_all") ~>
          ( /\ pc = "build_writer"
            /\ Len(results) = N
            /\ \A i \in 1..N : results[i] # Pending )
    /\ [][(pc = "join_all" /\ pc' # "join_all") =>
             /\ \A i \in DOMAIN units : units[i].phase = "done"
             /\ pc' = "build_writer" /\ Len(results') = N]_vars

\* C15 witness: request_many has returned for a batch of two in which URL 1
\* used up its retries and URL 2 completed first.
C15_Witness ==
    /\ pc = "build_writer" /\ Len(results) = 2 /\ overtaken
    /\ ~results[1].ok /\ results[1].err = "connect"
    /\ results[2] # Pending

BodySupplied == is_some(cli.body) \/ is_some(cli.json) \/ is_some(cli.form)

\* C16: when the method is GET or DELETE, every request dispatched by
\* request_many carries no body, whatever body, json or form value was
\* supplied; a supplied body only produces a warning, which does not stop
\* the run: unless validation found an error, the run goes on to
\* request_many and gets an outcome for every URL.
C16_NoBodyForGetDelete ==
    cli.method \in {"Get", "Delete"} =>
       /\ \A i \in DOMAIN units :
             /\ units[i].req.body = None
             /\ units[i].req.method = cli.method
       /\ (BodySupplied /\ pc # "validate") =>
             /\ Len(report.warnings) = 1
             /\ (report.errors = <<>> /\ Exited) =>
                   clients = 1 /\ Len(results) = N

\* C16 witness: DELETE requests dispatched without a body although a raw
\* body was supplied, after a validation that only warned.
C16_Witness ==
    /\ cli.method = "Delete" /\ is_some(cli.body)
    /\ report.errors = <<>> /\ Len(report.warnings) = 1
    /\ Len(units) = 2
    /\ \A i \in DOMAIN units : units[i].req.body = None

\* C17: when the method is POST or PUT, the body of every request is the
\* first present of json, raw body and form, in that order, and there is
\* no body when none of them is present.
C17_BodyPrecedence ==
    (pc = "fn_dispatched" /\ cli.method \in {"Post", "Put"}) =>
        \A i \in 1..Len(cli.urls) :
            units[i].req.body =
                IF cli.json # None THEN cli.json
                ELSE IF cli.body # None THEN cli.body
                ELSE IF cli.form # None THEN cli.form
                ELSE None

\* C17 witness: PUT requests built with json, raw body and form all
\* present carry the json value.
C17_Witness ==
    /\ pc = "fn_dispatched" /\ cli.method = "Put"
    /\ cli.json # None /\ cli.body # None /\ cli.form # None
    /\ Len(units) = 2
    /\ \A i \in DOMAIN units : units[i].req.body = cli.json

\* What validate_cli is expected to find, stated on the characters of the
\* input and the presence of the options.
WellFormed(u) ==
    \/ Len(u) >= 7 /\ \A k \in 1..7 : u[k] = <<"h", "t", "t", "p", ":", "/", "/">>[k]
    \/ Len(u) >= 8 /\ \A k \in 1..8 : u[k] = <<"h", "t", "t", "p", "s", ":", "/", "/">>[k]
Malformed == SelectSeq(cli.urls, LAMBDA u : ~WellFormed(u))
ErrorsOf(text) == SelectSeq(report.errors, LAMBDA e : e[1] = text)
Present ==
    (IF cli.body # None THEN 1 ELSE 0) + (IF cli.json # None THEN 1 ELSE 0)
    + (IF cli.form # None THEN 1 ELSE 0)
Validated == pc \in {"fn_validated", "fn_validated_again", "fn_dispatched"}

\* C18: validate_cli reports exactly one "Invalid URL" error for every
\* entry of urls that starts with neither http:// nor https://, a repeated
\* entry once per occurrence and in the order of urls, and none for an
\* entry that starts with one of the two.
C18_InvalidUrlErrors ==
    Validated =>
        ErrorsOf("Invalid URL") =
            [k \in 1..Len(Malformed) |-> <<"Invalid URL", Malformed[k]>>]

\* C18 witness: the same malformed URL given twice has two errors.
C18_Witness ==
    /\ Validated
    /\ cli.urls = <<UrlFtp, UrlFtp>>
    /\ ErrorsOf("Invalid URL") = << <<"Invalid URL", UrlFtp>>, <<"Invalid URL", UrlFtp>> >>

\* C19: validate_cli reports the error "Can't have more than one of body,
\* json, and form" exactly once for every combination of two or three of
\* them present, and not at all with none or one present.
C19_ExclusiveError ==
    Validated =>
        Len(ErrorsOf("Can't have more than one of body, json, and form"))
            = (IF Present >= 2 THEN 1 ELSE 0)

\* C19 witness: raw body and form present without json, one such error.
C19_Witness ==
    /\ Validated
    /\ cli.body # None /\ cli.form # None /\ cli.json = None
    /\ Len(ErrorsOf("Can't have more than one of body, json, and form")) = 1

\* C20: for GET or DELETE with any of body, json, form present,
\* validate_cli reports the warning "Body not allowed for GET or DELETE"
\* exactly once and the rule adds no error (the errors are those of the
\* same input with method POST); for POST or PUT, or with none present,
\* there is no warning.
C20_BodyWarning ==
    Validated =>
        /\ report.warnings =
              (IF cli.method \in {"Get", "Delete"} /\ Present >= 1
               THEN << <<"Body not allowed for GET or DELETE">> >>
               ELSE <<>>)
        /\ ErrorsOf("Body not allowed for GET or DELETE") = <<>>
        /\ report.errors = validate_cli([cli EXCEPT !.method = "Post"]).errors

\* C20 witness: DELETE with only a form value: one warning and no error.
C20_Witness ==
    /\ Validated
    /\ cli.method = "Delete"
    /\ cli.form # None /\ cli.body = None /\ cli.json = None
    /\ \A k \in 1..Len(cli.urls) : WellFormed(cli.urls[k])
    /\ Len(report.warnings) = 1
    /\ report.errors = <<>>

\* The run ended in check_and_exit's bail!: it is over and no client was made.
Bailed == Exited /\ clients = 0

\* C21: check_and_exit returns an error if and only if the error list of
\* the report is not empty: the run ends at validation exactly when there
\* is an error, and a report with warnings only, or an empty one, lets the
\* run go on to make the client and issue one request per URL.
C21_BailIffErrors ==
    pc # "validate" =>
        /\ Bailed <=> report.errors # <<>>
        /\ (report.errors = <<>> /\ pc \notin {"make_client", "request_many"}) =>
              clients = 1 /\ Len(units) + Len(results) = N

\* C21 witness: a report with a warning and no error, and the two requests
\* of the batch in flight.
C21_Witness ==
    /\ report.errors = <<>> /\ report.warnings # <<>>
    /\ pc = "join_all" /\ Len(units) = 2

\* The json option is present and is not a JSON text.
JsonInvalid == cli.json # None /\ cli.json # "{\"k\":1}"

\* C22: validate_cli checks every rule on every input: the errors of the
\* report are one error per offending URL, then the error for two or more
\* of body, json and form if it applies, then the JSON error if it applies,
\* all of them together and in that order, and the warnings are the
\* GET/DELETE body warning when it applies.
C22_AllRulesChecked ==
    Validated =>
        /\ report.errors =
              [k \in 1..Len(Malformed) |-> <<"Invalid URL", Malformed[k]>>]
              \o (IF Present >= 2
                  THEN << <<"Can't have more than one of body, json, and form">> >>
                  ELSE <<>>)
              \o (IF JsonInvalid
                  THEN << <<"JSON is not valid: ", cli.json>> >> ELSE <<>>)
        /\ Len(report.warnings) =
              (IF cli.method \in {"Get", "Delete"} /\ Present >= 1 THEN 1 ELSE 0)

\* C22 witness: an input that breaks every rule at once: two malformed
\* URLs, a raw body next to an invalid json, and method GET.
C22_Witness ==
    /\ Validated
    /\ cli.urls = <<UrlFtp, UrlUpper>>
    /\ cli.method = "Get" /\ cli.body # None /\ JsonInvalid
    /\ Len(report.errors) = 4
    /\ Len(report.warnings) = 1

\* C23: the report holds an error "JSON is not valid: ..." if and only if a
\* json value is present and does not parse; there is none when json is
\* absent or well formed, whatever else the input holds.
C23_JsonError ==
    Validated =>
        /\ (ErrorsOf("JSON is not valid: ") # <<>>) <=> JsonInvalid
        /\ Len(ErrorsOf("JSON is not valid: ")) <= 1

\* C23 witness: an empty json value, alone and with method POST, has the
\* JSON error and no other.
C23_Witness ==
    /\ Validated
    /\ cli.json = "" /\ cli.body = None /\ cli.form = None
    /\ cli.method = "Post" /\ Malformed = <<>>
    /\ report.errors = << <<"JSON is not valid: ", "">> >>

C25_OneClient ==
    /\ clients \in {0, 1}
    /\ clients = 0 => units = <<>> /\ results = <<>>
    /\ (pc \notin {"validate", "make_client"} /\ report.errors = <<>>) => clients = 1
    /\ report.errors # <<>> => clients = 0
    /\ \A i \in DOMAIN units : units[i].client = 1

\* C25 witness: two units in flight, one of them on a retry, both with the
\* one client of the run.
C25_Witness ==
    /\ clients = 1 /\ Len(units) = 2
    /\ units[1].phase = "send" /\ units[1].n_past_retries = 2
    /\ units[2].phase = "read"
    /\ units[1].client = units[2].client

Spaces(n) == [k \in 1..n |-> " "]
HasColon(s) == \E k \in 1..Len(s) : s[k] = ":"
Trimmed(s) == s = <<>> \/ (s[1] # " " /\ s[Len(s)] # " ")

\* C27: parse_key_val fails exactly on the inputs without a colon; on an
\* input with a colon it returns a key and a value, both without
\* surrounding whitespace and possibly empty, such that the input is the
\* key, the first colon and the value with whitespace around the two parts:
\* the key holds no colon, so later colons are in the value.
C27_ParseKeyVal ==
    pc = "parsed" =>
        /\ header_ret.kind = (IF HasColon(header_arg) THEN "ok" ELSE "err")
        /\ header_ret.kind = "ok" =>
              /\ ~HasColon(header_ret.key)
              /\ Trimmed(header_ret.key) /\ Trimmed(header_ret.value)
              /\ \E a, b, c, d \in 0..Len(header_arg) :
                    header_arg = Spaces(a) \o header_ret.key \o Spaces(b)
                                 \o <<":">>
                                 \o Spaces(c) \o header_ret.value \o Spaces(d)

\* C27 witness: " a::a" gives the key "a" and the value ":a".
C27_Witness ==
    /\ pc = "parsed"
    /\ header_arg = <<" ", "a", ":", ":", "a">>
    /\ header_ret = [kind |-> "ok", key |-> <<"a">>, value |-> <<":", "a">>]

ExpectedFields ==
    IF cli.latency
    THEN <<"Status", "Content-Length", "Headers", "Body", "Latency">>
    ELSE <<"Status", "Content-Length", "Headers", "Body">>

\* C28: write_result emits the fields of a record in the order Status,
\* Content-Length, Headers, Body, followed by a Latency line if and only
\* if latency reporting is enabled: the lines of every record in the sink
\* are those fields in that order (the first of them, when a write
\* failed), and all of them once the loop has passed the URL.
C28_RecordFormat ==
    \A i \in 1..N :
        /\ IsPrefix(FieldsFor(i), ExpectedFields)
        /\ (i \in Consumed /\ results[i].ok) => FieldsFor(i) = ExpectedFields
        /\ (\E k \in 1..Len(FieldsFor(i)) : FieldsFor(i)[k] = "Latency")
               => cli.latency

\* C28 witness: with latency reporting on, the records of two responses
\* are in the sink, each ending in its Latency line.
C28_Witness ==
    /\ cli.latency /\ idx = 2
    /\ \A i \in 1..2 :
          FieldsFor(i) = <<"Status", "Content-Length", "Headers", "Body", "Latency">>

\* C29: when an output file is given, build_writer creates or truncates it:
\* the writer is the file and the file holds nothing of an earlier run;
\* when none is given the writer is standard output; when the file cannot
\* be created there is an error and no writer: nothing is written and the
\* process ends with a non-zero code.
C29_BuildWriter ==
    /\ writer \in {None, "stdout", "file"}
    /\ writer = "stdout" => cli.output = None
    /\ writer = "file" =>
          /\ cli.output # None
          /\ \A k \in 1..Len(sink) : sink[k].for # 0
    /\ pc \in {"write_results", "main_tail"} =>
          writer = (IF cli.output = None THEN "stdout" ELSE "file")
    /\ (Exited /\ Joined /\ writer = None) =>
          /\ cli.output # None
          /\ wr_ret.kind = "none" /\ idx = 0
          /\ sink = OldFile
          /\ exit_code = 1

\* C29 witness: the run wrote two records to a file that held the output
\* of an earlier run; only the two records are in it.
C29_Witness ==
    /\ writer = "file" /\ Exited /\ wr_ret.kind = "ok"
    /\ Len(results) = 2 /\ results[1].ok /\ results[2].ok
    /\ Len(sink) >= 8
    /\ \A k \in 1..Len(sink) : sink[k].for \in {1, 2}

\* C30: the units of a batch run concurrently: a request that has not
\* reached its outcome can always take its next step, whatever the state
\* of the requests submitted before it, so that a later URL reaches its
\* outcome while an earlier one is still in flight or retrying.
C30_Concurrent ==
    pc = "join_all" =>
        \A j \in DOMAIN units :
            ~Terminal(units[j]) =>
                \/ ENABLED (\E a \in AttemptResults : AttemptEnds(j, a))
                \/ ENABLED (\E read_ok \in BOOLEAN : BodyRead(j, read_ok))

\* C30 witness: URL 2 has its HttpResult while URL 1, submitted before it,
\* is on its last retry.
C30_Witness ==
    /\ pc = "join_all" /\ Len(units) = 2
    /\ Terminal(units[2]) /\ units[2].outcome.ok
    /\ units[1].phase = "send" /\ units[1].n_past_retries = 3

\* C31: a batch of N URL entries causes exactly N logical requests, one per
\* entry and for the URL of that entry, a URL given twice included; each
\* of them reaches exactly one outcome, whatever the number of attempts
\* made for it: a request completes at most once, it has an outcome
\* exactly when it has completed, and request_many returns one outcome per
\* entry.
C31_OneRequestPerEntry ==
    /\ units # <<>> =>
          /\ Len(units) = Len(cli.urls)
          /\ \A i \in 1..Len(cli.urls) :
                /\ units[i].req.url = cli.urls[i]
                /\ (units[i].outcome # Pending) <=> (units[i].phase = "done")
                /\ Cardinality({k \in 1..Len(completion) : completion[k] = i})
                      = (IF units[i].phase = "done" THEN 1 ELSE 0)
    /\ Joined =>
          /\ Len(results) = Len(cli.urls)
          /\ \A i \in 1..Len(cli.urls) :
                Cardinality({k \in 1..Len(results) : results[k].for = i}) = 1

\* C31 witness: the same URL given twice has two outcomes: a 500 that took
\* all four attempts and a 200.
C31_Witness ==
    /\ cli.urls = <<UrlHttp, UrlHttp>>
    /\ Joined /\ Len(results) = 2
    /\ results[1].ok /\ results[1].status = 500
    /\ results[2].ok /\ results[2].status = 200

\* A step in which the body read of URL i has ended.
ReadStep(i) ==
    /\ i \in DOMAIN units /\ i \in DOMAIN units'
    /\ units[i].phase = "read"
    /\ units'[i] # units[i]
BodyLost(r) == ~r.ok /\ r.err = "body"

\* C32: when the send has succeeded and a status was received but reading
\* the body fails, the outcome of the URL is an error that carries neither
\* the status nor the headers; no record is ever written for that URL, the
\* failure is reported on the error channel when the loop passes it, and
\* it counts as a failure for the boolean returned and for the exit code.
C32_BodyReadFailure ==
    /\ [][\A i \in DOMAIN units :
             (ReadStep(i) /\ units'[i] = AfterBody(i, units[i], FALSE)) =>
                 /\ units'[i].phase = "done"
                 /\ ~units'[i].outcome.ok
                 /\ units'[i].outcome.err = "body"
                 /\ units'[i].outcome.status = 0]_vars
    /\ [](\A i \in 1..Len(results) :
             BodyLost(results[i]) =>
                 /\ LinesFor(i) = <<>>
                 /\ i \in Consumed =>
                       /\ had_failure
                       /\ \E k \in 1..Len(stderr) :
                             stderr[k] = FailedLine(cli.urls[i], "body")
                 /\ wr_ret.kind = "ok" => wr_ret.value
                 /\ Exited => exit_code = 1)

\* C32 witness: the run has ended with code 1 after a batch in which URL 1
\* answered 200 and its body could not be read, and URL 2 answered 200:
\* the sink holds the record of URL 2 only.
C32_Witness ==
    /\ Exited /\ wr_ret.kind = "ok" /\ exit_code = 1
    /\ Len(results) = 2
    /\ BodyLost(results[1]) /\ Good(results[2])
    /\ LinesFor(1) = <<>> /\ LinesFor(2) # <<>>

\* Every request of the batch has been issued and has reached its outcome,
\* and request_many has returned the outcomes.
BatchReturned ==
    /\ Len(results) = Len(cli.urls)
    /\ units = <<>>
    /\ \A i \in 1..Len(results) : results[i] # Pending

\* C33: the output is opened only once request_many has returned, that is
\* when every request of the batch has been issued and has completed: the
\* writer and the file change only after that; and when the file cannot be
\* created the process ends in that step with a non-zero code, the file
\* untouched and no record written, although every request was sent.
C33_OpenAfterBatch ==
    /\ [][(writer' # writer \/ sink' # sink) => BatchReturned]_vars
    /\ [][(pc = "build_writer" /\ pc' = "done") =>
             /\ BatchReturned
             /\ writer' = None /\ exit_code' = 1
             /\ sink' = sink /\ RecordLinesIn(sink') = <<>>
             /\ stderr' = stderr /\ idx' = 0]_vars
    /\ []((~Joined /\ ~Exited) => (writer = None /\ RecordLinesIn(sink) = <<>>))

\* C33 witness: the two POST requests of the batch were answered 200 and
\* the output file could not be created: the run has ended with code 1 and
\* the file holds what it held.
C33_Witness ==
    /\ Exited /\ writer = None /\ exit_code = 1
    /\ cli.method = "Post" /\ cli.output # None
    /\ Len(results) = 2 /\ Good(results[1]) /\ Good(results[2])
    /\ sink = OldFile

\* The per-request reports on the error channel, and whether the record of
\* URL j is in the sink with all its lines.
RequestReports == SelectSeq(stderr, LAMBDA l : l.kind \in {"failed", "returned"})
RecordComplete(j) == Len(LinesFor(j)) = (IF cli.latency THEN 5 ELSE 4)
WriteFailed == wr_ret.kind = "err"

\* C34: when writing or flushing the record of a URL fails, write_results
\* returns the I/O error at once.  The failing URL is the one after the
\* idx URLs handled: the later URLs have no line in the sink, the error
\* channel holds one report per failed URL among the idx handled ones and
\* none for the others, no boolean is returned, and the process has ended
\* with code 1 even when had_failure is FALSE; the records of the URLs
\* handled before stay complete in the sink.  A record cut short is in the
\* sink only in that case, for that URL.
C34_WriteFailure ==
    /\ WriteFailed =>
          /\ Exited /\ exit_code = 1
          /\ idx < Len(results) /\ results[idx + 1].ok
          /\ \A j \in (idx + 2)..Len(results) : LinesFor(j) = <<>>
          /\ Len(RequestReports) = Cardinality({j \in Consumed : Failed(results[j])})
          /\ \A j \in Consumed : results[j].ok => (RecordComplete(j) /\ FullRecord(j))
    /\ \A j \in 1..Len(results) :
          (LinesFor(j) # <<>> /\ ~RecordComplete(j)) => (WriteFailed /\ j = idx + 1)

\* C34 witness: the sink took two lines of the record of URL 1 and then
\* failed; URL 2, whose request ended in an error, has no report on the
\* error channel, had_failure is still FALSE and the process ended with 1.
C34_Witness ==
    /\ WriteFailed /\ Exited /\ exit_code = 1
    /\ idx = 0 /\ ~had_failure
    /\ Len(results) = 2 /\ Good(results[1]) /\ ~results[2].ok
    /\ Len(LinesFor(1)) = 2
    /\ RequestReports = <<>>

\* C35: the copies in main.rs of validate_cli, request_many and
\* write_results do what the versions of cli.rs, http.rs and output.rs do:
\* on the input of the run the copy of validate_cli gives the report the
\* run has, the copy of request_many issues the requests the run issued,
\* one per URL in URL order, and on the outcome vector of the run the copy
\* of write_results gives, after as many iterations, the sink contents, the
\* reports on the error channel and the had_failure value of the run; a
\* write that fails adds to the sink only lines of the record it failed on.
C35_MainCopies ==
    /\ pc # "validate" => report = main_validate_cli(cli)
    /\ units # <<>> =>
          [i \in DOMAIN units |-> units[i].req]
             = main_request_many(cli.urls, cli.method, BodyArg(cli), cli.headers)
    /\ (Joined /\ writer # None) =>
          LET m == main_write_results(cli.urls, results, cli.latency, idx)
          IN  /\ RequestReports = m.stderr
              /\ had_failure = m.had_failure
              /\ IF WriteFailed
                 THEN /\ IsPrefix(m.sink, sink)
                      /\ \A k \in (Len(m.sink) + 1)..Len(sink) : sink[k].for = idx + 1
                 ELSE sink = m.sink
              /\ wr_ret.kind = "ok" =>
                    /\ idx = Min(Len(cli.urls), Len(results))
                    /\ wr_ret.value = m.had_failure

\* C35 witness: a run whose report holds a warning has written the record
\* of a 404 and the reports of the 404 and of a failed request, and the
\* copies give the same report, records and reports.
C35_Witness ==
    /\ Exited /\ wr_ret.kind = "ok" /\ Len(results) = 2
    /\ results[1].ok /\ results[1].status = 404 /\ ~results[2].ok
    /\ Len(RequestReports) = 2 /\ Len(sink) >= 4
    /\ report = main_validate_cli(cli) /\ report.warnings # <<>>

JsonNotValid == <<"JSON is not valid: ", cli.json>>

\* C36: the JSON rule is applied whatever the method and whatever the
\* other rules found.  Once validation has run on a json value that does
\* not parse, the report holds the "JSON is not valid" error, after the
\* errors of the other rules, and with GET or DELETE the body warning as
\* well, although request_many would hand no body to request for these
\* methods; both are logged, and the run has ended at validation with code
\* 1: no client, no request, nothing written.
C36_JsonRuleAnyMethod ==
    (pc # "validate" /\ is_some(cli.json) /\ cli.json # JsonGood) =>
        /\ report.errors # <<>>
        /\ report.errors[Len(report.errors)] = JsonNotValid
        /\ cli.method \in {"Get", "Delete"} =>
              /\ report.warnings = << <<"Body not allowed for GET or DELETE">> >>
              /\ RequestBody(cli.method, BodyArg(cli)) = None
              /\ \E k \in 1..Len(stderr) :
                    stderr[k] = LogLine(<<"Body not allowed for GET or DELETE">>)
        /\ \E k \in 1..Len(stderr) : stderr[k] = LogLine(JsonNotValid)
        /\ Bailed /\ exit_code = 1
        /\ units = <<>> /\ results = <<>> /\ writer = None
        /\ RecordLinesIn(sink) = <<>>

\* C36 witness: a DELETE of two valid URLs with a json value that does not
\* parse has ended at validation, with the warning and the JSON error as
\* its only error.
C36_Witness ==
    /\ Exited /\ exit_code = 1 /\ clients = 0
    /\ cli.method = "Delete" /\ cli.json = JsonBad
    /\ cli.urls = <<UrlHttp, UrlHttp>>
    /\ report.errors = << JsonNotValid >>
    /\ Len(report.warnings) = 1

NotAUrl(i) == cli.urls[i] = UrlBadHost

\* C37: validation accepts every URL that starts with http:// or https://
\* and checks nothing else.  A URL with the prefix that is not a URL is no
\* validation error: the run goes on, one request per URL is dispatched,
\* the request for that URL ends in an error outcome, no record is written
\* for it and the process ends with a non-zero code.
C37_MalformedUrlDispatched ==
    /\ pc # "validate" =>
          /\ \A i \in 1..Len(cli.urls) :
                WellFormed(cli.urls[i]) /\ valid_url(cli.urls[i])
          /\ report.errors = <<>> /\ ~Bailed
    /\ units # <<>> => Len(units) = Len(cli.urls)
    /\ \A i \in DOMAIN units :
          (NotAUrl(i) /\ Terminal(units[i])) =>
              (~units[i].outcome.ok /\ units[i].status = 0)
    /\ Joined =>
          /\ Len(results) = Len(cli.urls)
          /\ \A i \in 1..Len(results) :
                NotAUrl(i) => (~results[i].ok /\ LinesFor(i) = <<>>)
    /\ (Exited /\ \E i \in 1..Len(cli.urls) : NotAUrl(i)) => exit_code = 1

\* C37 witness: a batch of a URL and of "http:// " has been dispatched; the
\* first got its 200 and its record, the second ended in an error that was
\* reported, and the process ended with code 1.
C37_Witness ==
    /\ cli.urls = <<UrlHttp, UrlBadHost>>
    /\ Exited /\ exit_code = 1 /\ wr_ret.kind = "ok"
    /\ Len(results) = 2 /\ Good(results[1]) /\ ~results[2].ok
    /\ LinesFor(1) # <<>> /\ LinesFor(2) = <<>>
    /\ \E k \in 1..Len(stderr) : stderr[k].kind = "failed" /\ stderr[k].url = UrlBadHost

\* The run is the pipeline of main (it made its client), and the k-th of
\* the pairs 1..n whose outcome is a failure.
InPipeline == clients > 0
FailedUpTo(n) == {j \in 1..n : Failed(results[j])}

\* C38: write_results pairs URLs and outcomes by position and handles
\* exactly min(|urls|, |results|) pairs: the loop never goes past the
\* shorter sequence and returns Ok only at its end; the record in the sink
\* at position j is the record of outcome j, the records are in that order,
\* and the k-th report on the error channel names the URL at the position
\* of the k-th failed outcome.  In the pipeline of main the two sequences
\* have the same length, so every input URL has its pair.
C38_ZipByPosition ==
    /\ pc \in {"write_results", "main_tail"} \/ wr_ret.kind # "none" =>
          /\ idx <= Min(Len(cli.urls), Len(results))
          /\ wr_ret.kind = "ok" => idx = Min(Len(cli.urls), Len(results))
          /\ \A k \in 1..Len(sink) :
                /\ sink[k].for \in 1..Min(Len(cli.urls), Len(results))
                /\ sink[k].for <= idx + 1
                /\ sink[k].status = results[sink[k].for].status
                /\ k > 1 => sink[k - 1].for <= sink[k].for
          /\ \A j \in 1..idx : (LinesFor(j) # <<>>) <=> results[j].ok
          /\ Len(RequestReports) = Cardinality(FailedUpTo(idx))
          /\ \A j \in FailedUpTo(idx) :
                LET line == RequestReports[Cardinality(FailedUpTo(j))]
                IN  /\ line.url = cli.urls[j]
                    /\ line.kind = (IF results[j].ok THEN "returned" ELSE "failed")
                    /\ line.status = results[j].status
    /\ (InPipeline /\ Joined) => Len(results) = Len(cli.urls)

\* C38 witness: write_results was given one URL and two outcomes, a 404
\* and a 200: it returned after one pair, with the record of the 404 in
\* the sink and one report, which names the URL.
C38_Witness ==
    /\ ~InPipeline /\ wr_ret.kind = "ok" /\ idx = 1
    /\ cli.urls = <<UrlHttps>>
    /\ Len(results) = 2 /\ results[1].status = 404 /\ Good(results[2])
    /\ LinesFor(1) # <<>> /\ LinesFor(2) = <<>>
    /\ RequestReports = <<ReturnedLine(UrlHttps, 404)>>

\* The body main hands over: json before body before form.
PassedBody ==
    IF cli.json # None THEN cli.json
    ELSE IF cli.body # None THEN cli.body ELSE cli.form

\* C39: request attaches the body it is passed whatever the method, GET
\* and DELETE included, and none when it is passed none; the requests that
\* request_many issues for GET and DELETE carry no body only because
\* request_many passes none for these methods, and those for POST and PUT
\* carry the body passed.
C39_RequestAttachesBody ==
    /\ pc = "fn_requested" =>
          /\ Len(units) = 1
          /\ units[1].req.method = cli.method
          /\ units[1].req.url = cli.urls[1]
          /\ units[1].req.body = PassedBody
    /\ pc = "fn_dispatched" =>
          \A i \in DOMAIN units :
              units[i].req.body =
                  (IF cli.method \in {"Get", "Delete"} THEN None ELSE PassedBody)

\* C39 witness: request was called with DELETE and a raw body, and the
\* request it sends carries that body.
C39_Witness ==
    /\ pc = "fn_requested"
    /\ cli.method = "Delete" /\ cli.body = "raw" /\ cli.json = None
    /\ units[1].req.method = "Delete" /\ units[1].req.body = "raw"

====
